---------------------------- MODULE Spec2Model ----------------------------
(***************************************************************************)
(* The scheduler's active queue (pkg/scheduler/internal/queue/             *)
(* active_queue.go): a keyed priority heap of pods, a blocking pop on a    *)
(* condition variable, and the list of in-flight pods interleaved with the *)
(* cluster events received while they are being scheduled.                 *)
(*                                                                         *)
(* Each pod has one pInfo object, which producers put into the heap again  *)
(* and again; its Attempts field, its UnschedulablePlugins and             *)
(* PendingPlugins sets and the gauge that pop decrements are part of the   *)
(* state.  The node change helpers that feed the event calls are pure      *)
(* functions of two nodes and have a specification of their own.           *)
(* The heap package is not part of the sources at hand; it is modelled as  *)
(* a binary heap keyed by UID, ordered by lessFunc, as the queue's         *)
(* documentation describes it.                                             *)
(***************************************************************************)
EXTENDS Integers, Sequences, FiniteSets, TLC

(* ------------------------------ bounds -------------------------------- *)
NumPods == 2
NumConsumers == 2
MaxPriority == 2
MaxCycle == 3
MaxEvents == 2
(* Goroutines that may be inside underRLock at once. *)
MaxReaders == 2

UIDs == 1..NumPods
Consumers == 1..NumConsumers
Priorities == 1..MaxPriority

(* return values of pop: a pod's UID, or one of these *)
NoRet == 0
NilRet == -1
ErrRet == -2

(* the object of a cluster event that is no pod (a node) *)
NodeObj == 0

(* holders of activeQueue.lock *)
Unlocked == "unlocked"
Producer == "producer"

VARIABLES
    queue,          \* the heap's backing array: items [uid, priority]
    inFlightPods,   \* map UID -> id of the list element of the pod
    inFlightEvents, \* the list: a sequence of elements
    schedCycle,
    closed,
    isSchedulingQueueHintEnabled,
    lock,           \* who holds activeQueue.lock exclusively across steps
    pc,             \* pc[c]: where consumer c is in pop
    ret,            \* ret[c]: what consumer c's last pop returned
    outstanding,    \* history: pops of u not yet followed by done(u)
    attempts,       \* attempts[u]: the Attempts field of the pInfo of u
    unschedulablePlugins, \* [u]: the UnschedulablePlugins set of the pInfo of u
    pendingPlugins, \* [u]: the PendingPlugins set of the pInfo of u
    unschedulableReason,  \* [plugin]: the gauge metrics.UnschedulableReason
    observed,       \* what the last list, len or has saw, and under which lock
    newNode,        \* the arguments of the node change helpers
    oldNode,
    gotEvents       \* what NodeSchedulingPropertiesChange returned for them

vars == <<queue, inFlightPods, inFlightEvents, schedCycle, closed,
          isSchedulingQueueHintEnabled, lock, pc, ret, outstanding, attempts,
          unschedulablePlugins, pendingPlugins, unschedulableReason,
          observed, newNode, oldNode, gotEvents>>

(* The variables of the pInfo bookkeeping that only pop and the scheduler  *)
(* write, and those that no operation of the queue writes.                *)
pluginVars == <<unschedulablePlugins, pendingPlugins, unschedulableReason>>

envVars == <<observed, newNode, oldNode, gotEvents>>

(* ------------------------------- heap --------------------------------- *)
(* An item of the heap: the pInfo of pod uid, whose pod has this priority. *)
Item(u, p) == [uid |-> u, priority |-> p]

(* The comparator the caller supplies: higher priority first.              *)
lessFunc(a, b) == a.priority > b.priority

Swap(q, i, j) == [q EXCEPT ![i] = q[j], ![j] = q[i]]

RECURSIVE up(_, _)
up(q, j) ==
    IF j = 1 THEN q
    ELSE LET i == j \div 2
         IN IF ~lessFunc(q[j], q[i]) THEN q ELSE up(Swap(q, i, j), i)

RECURSIVE down(_, _, _)
down(q, i, n) ==
    LET j1 == 2 * i
    IN IF j1 > n THEN q
       ELSE LET j2 == j1 + 1
                j == IF j2 <= n /\ lessFunc(q[j2], q[j1]) THEN j2 ELSE j1
            IN IF ~lessFunc(q[j], q[i]) THEN q
               ELSE down(Swap(q, i, j), j, n)

IndexOf(q, u) == IF \E i \in 1..Len(q) : q[i].uid = u
                 THEN CHOOSE i \in 1..Len(q) : q[i].uid = u
                 ELSE 0

HeapHas(q, u) == IndexOf(q, u) # 0

HeapFix(q, i) ==
    LET d == down(q, i, Len(q))
    IN IF d # q THEN d ELSE up(q, i)

HeapPush(q, item) == up(Append(q, item), Len(q) + 1)

HeapRemove(q, i) ==
    LET n == Len(q) - 1
    IN IF n + 1 = i THEN SubSeq(q, 1, n)
       ELSE LET s == Swap(q, i, n + 1)
                d == down(s, i, n)
            IN IF d = s THEN SubSeq(up(d, i), 1, n) ELSE SubSeq(d, 1, n)

(* Heap.Pop: the root, and the array without it. *)
HeapPop(q) ==
    IF Len(q) = 0 THEN [obj |-> Item(0, 0), err |-> TRUE, queue |-> q]
    ELSE LET n == Len(q) - 1
             d == down(Swap(q, 1, n + 1), 1, n)
         IN [obj |-> d[n + 1], err |-> FALSE, queue |-> SubSeq(d, 1, n)]

HeapAddOrUpdate(q, item) ==
    LET i == IndexOf(q, item.uid)
    IN IF i # 0 THEN HeapFix([q EXCEPT ![i] = item], i)
       ELSE HeapPush(q, item)

HeapDelete(q, u) ==
    LET i == IndexOf(q, u)
    IN IF i # 0 THEN [queue |-> HeapRemove(q, i), err |-> FALSE]
       ELSE [queue |-> q, err |-> TRUE]

(* --------------------------- the timeline ----------------------------- *)
PodElem(id, u) ==
    [id |-> id, isPod |-> TRUE, uid |-> u,
     event |-> "", oldObj |-> NodeObj, newObj |-> NodeObj]

EventElem(id, kind, old, new) ==
    [id |-> id, isPod |-> FALSE, uid |-> 0,
     event |-> kind, oldObj |-> old, newObj |-> new]

ListRemove(l, id) == SelectSeq(l, LAMBDA e : e.id # id)

ElemIndex(l, id) == IF \E i \in 1..Len(l) : l[i].id = id
                    THEN CHOOSE i \in 1..Len(l) : l[i].id = id
                    ELSE 0

(* The identity of a newly allocated element: one that no element of the  *)
(* list has and no entry of the map refers to.                             *)
NewElem(m, l) ==
    LET used == {l[i].id : i \in 1..Len(l)} \cup {m[k] : k \in DOMAIN m}
    IN CHOOSE id \in 1..(Cardinality(used) + 1) :
           id \notin used /\ \A j \in 1..(id - 1) : j \in used

(* Variant: every event of the list is removed, not only those in front. *)
pruneAll(l) == SelectSeq(l, LAMBDA e : e.isPod)

RECURSIVE pruneFront(_)
pruneFront(l) ==
    IF l = <<>> THEN l
    ELSE IF l[1].isPod THEN l
    ELSE pruneFront(Tail(l))

(* ------------------------ plugins, reads, nodes ----------------------- *)
(* The scheduler plugins that may have rejected a pod. *)
Plugins == {"PluginA", "PluginB"}

(* No list, len or has has been made yet. *)
NoRead == [op |-> "none", mode |-> "none", writer |-> FALSE, value |-> 0]

(* st.MakeNode().Obj(): a node with nothing set. *)
MakeNode ==
    [unschedulable |-> FALSE, allocatable |-> {}, labels |-> {},
     taints |-> <<>>, annotations |-> {}, conditions |-> <<>>]

(* ------------------------ node change helpers ------------------------- *)
(* What an extractor returns when it does not fire. *)
Nil == "nil"

(* gotEvents before NodeSchedulingPropertiesChange has been called. *)
NotCalled == <<"NotCalled">>

Taint(value) == [key |-> "key", value |-> value, effect |-> "NoSchedule"]

NodeCondition(type, status, heartbeat, transition) ==
    [type |-> type, status |-> status,
     lastHeartbeatTime |-> heartbeat, lastTransitionTime |-> transition]

(* The values the fields of a node are drawn from. *)
Allocatables ==
    {{<<"memory", 1024>>}, {<<"memory", 1024>>, <<"storage", 1024>>}}

LabelMaps ==
    {{<<"foo", "bar">>}, {<<"foo", "fuz">>},
     {<<"foo", "bar">>, <<"test", "value">>}}

AnnotationMaps == {{<<"foo", "bar">>}, {<<"foo", "fuz">>}}

TaintLists == {<<>>, <<Taint("value1")>>, <<Taint("value2")>>}

ConditionLists ==
    {<<>>,
     <<NodeCondition("Ready", "True", 1, 1)>>,
     <<NodeCondition("Ready", "True", 2, 1)>>,
     <<NodeCondition("Ready", "True", 1, 2)>>,
     <<NodeCondition("Ready", "False", 1, 1)>>,
     <<NodeCondition("Ready", "True", 1, 1),
       NodeCondition("DiskPressure", "True", 1, 1)>>}

Nodes ==
    [unschedulable : BOOLEAN, allocatable : Allocatables, labels : LabelMaps,
     taints : TaintLists, annotations : AnnotationMaps,
     conditions : ConditionLists]

(* The outcomes extractNodeSpecUnschedulableChange may have: none for     *)
(* nodes that agree, the event for a node that became schedulable, and    *)
(* either for a node that became unschedulable.                           *)
extractNodeSpecUnschedulableChange(n, o) ==
    IF n.unschedulable = o.unschedulable THEN {Nil}
    ELSE IF ~n.unschedulable THEN {"NodeSpecUnschedulableChange"}
    ELSE {Nil, "NodeSpecUnschedulableChange"}

(* Variant: the event only when the new node has more resources. *)
extractNodeAllocatableGrowth(n, o) ==
    IF n.allocatable # o.allocatable /\ o.allocatable \subseteq n.allocatable
    THEN "NodeAllocatableChange" ELSE Nil

extractNodeAllocatableChange(n, o) ==
    IF n.allocatable # o.allocatable THEN "NodeAllocatableChange" ELSE Nil

extractNodeLabelsChange(n, o) ==
    IF n.labels # o.labels THEN "NodeLabelChange" ELSE Nil

(* The taints of a list as a multiset: each triple with its count. *)
TaintBag(l) ==
    [t \in {l[i] : i \in 1..Len(l)} |->
        Cardinality({i \in 1..Len(l) : l[i] = t})]

extractNodeTaintsChange(n, o) ==
    IF TaintBag(n.taints) # TaintBag(o.taints) THEN "NodeTaintChange" ELSE Nil

(* The conditions of a list stripped to their (type, status) pairs. *)
strip(l) == {<<l[i].type, l[i].status>> : i \in 1..Len(l)}

(* Variant: the condition lists are compared as they are. *)
extractNodeConditionsDeepEqual(n, o) ==
    IF n.conditions # o.conditions THEN "NodeConditionChange" ELSE Nil

extractNodeConditionsChange(n, o) ==
    IF strip(n.conditions) # strip(o.conditions)
    THEN "NodeConditionChange" ELSE Nil

extractNodeAnnotationsChange(n, o) ==
    IF n.annotations # o.annotations THEN "NodeAnnotationChange" ELSE Nil

(* Variant: the taint extractor is asked before the label extractor. *)
NodeSchedulingPropertiesChangeTaintFirst(n, o, unschedulable) ==
    SelectSeq(<<unschedulable,
                extractNodeAllocatableChange(n, o),
                extractNodeTaintsChange(n, o),
                extractNodeLabelsChange(n, o),
                extractNodeAnnotationsChange(n, o),
                extractNodeConditionsChange(n, o)>>,
              LAMBDA e : e # Nil)

(* The events of the extractors that fire, in the order of the extractors; *)
(* unschedulable is what extractNodeSpecUnschedulableChange returned.      *)
NodeSchedulingPropertiesChange(n, o, unschedulable) ==
    SelectSeq(<<unschedulable,
                extractNodeAllocatableChange(n, o),
                extractNodeLabelsChange(n, o),
                extractNodeTaintsChange(n, o),
                extractNodeAnnotationsChange(n, o),
                extractNodeConditionsChange(n, o)>>,
              LAMBDA e : e # Nil)

(* ------------------------------ Init ---------------------------------- *)
QueueInit ==
    /\ queue = <<>>
    /\ inFlightPods = <<>>
    /\ inFlightEvents = <<>>
    /\ schedCycle = 0
    /\ closed = FALSE
    /\ isSchedulingQueueHintEnabled \in BOOLEAN
    /\ lock = Unlocked
    /\ pc = [c \in Consumers |-> "idle"]
    /\ ret = [c \in Consumers |-> NoRet]
    /\ outstanding = [u \in UIDs |-> 0]
    /\ attempts = [u \in UIDs |-> 0]
    /\ unschedulablePlugins = [u \in UIDs |-> {}]
    /\ pendingPlugins = [u \in UIDs |-> {}]
    /\ unschedulableReason = [pl \in Plugins |-> 0]
    /\ observed = NoRead

Init ==
    /\ QueueInit
    /\ newNode = MakeNode
    /\ oldNode = MakeNode
    /\ gotEvents = <<>>


(* ----------------------- underLock and AddOrUpdate -------------------- *)
(* underLock: lock.Lock(), then fn runs, then the deferred Unlock.         *)
UnderLockBegin ==
    /\ lock = Unlocked
    /\ lock' = Producer
    /\ UNCHANGED <<queue, inFlightPods, inFlightEvents, schedCycle,
                   closed, isSchedulingQueueHintEnabled, pc, ret, outstanding, attempts, pluginVars, envVars>>

(* fn calls AddOrUpdate(pInfo) on the handle it was given. *)
AddOrUpdate(u, p) ==
    /\ lock = Producer
    /\ HeapHas(queue, u) \/ schedCycle + Len(queue) < MaxCycle
    /\ queue' = HeapAddOrUpdate(queue, Item(u, p))
    /\ UNCHANGED <<inFlightPods, inFlightEvents, schedCycle, closed,
                   isSchedulingQueueHintEnabled, lock, pc, ret, outstanding, attempts, pluginVars, envVars>>

UnderLockEnd ==
    /\ lock = Producer
    /\ lock' = Unlocked
    /\ UNCHANGED <<queue, inFlightPods, inFlightEvents, schedCycle,
                   closed, isSchedulingQueueHintEnabled, pc, ret, outstanding, attempts, pluginVars, envVars>>

(* ------------------------------ update -------------------------------- *)
(* update(newPod, oldPodInfo): the item found under oldPodInfo's key is    *)
(* updated to newPod (of priority p) and put back; nothing otherwise.      *)
(* Variants: a pod that is not in the heap is put into it; a pod that is   *)
(* in the heap is pushed as one more entry.                                *)
updateInserts(q, u, p) == HeapAddOrUpdate(q, Item(u, p))

updateAppends(q, u, p) ==
    IF HeapHas(q, u) THEN HeapPush(q, Item(u, p)) ELSE q

update(q, u, p) ==
    IF HeapHas(q, u) THEN HeapAddOrUpdate(q, Item(u, p)) ELSE q

(* What update returns: the updated pInfo, or nil. *)
NoItem == Item(0, 0)

updateReturn(q, u, p) == IF HeapHas(q, u) THEN Item(u, p) ELSE NoItem

Update(u, p) ==
    /\ lock = Unlocked
    /\ queue' = update(queue, u, p)
    /\ UNCHANGED <<inFlightPods, inFlightEvents, schedCycle, closed,
                   isSchedulingQueueHintEnabled, lock, pc, ret, outstanding, attempts, pluginVars, envVars>>

(* ------------------------------ delete -------------------------------- *)
(* Variant: for a pod that is not in the heap the head is deleted. *)
deleteHead(q, u) ==
    IF HeapHas(q, u) \/ Len(q) = 0 THEN HeapDelete(q, u)
    ELSE [queue |-> HeapRemove(q, 1), err |-> FALSE]

(* return aq.queue.Delete(pInfo): the heap afterwards, and the error. *)
delete(q, u) == HeapDelete(q, u)

Delete(u) ==
    /\ lock = Unlocked
    /\ queue' = delete(queue, u).queue
    /\ UNCHANGED <<inFlightPods, inFlightEvents, schedCycle, closed,
                   isSchedulingQueueHintEnabled, lock, pc, ret, outstanding, attempts, pluginVars, envVars>>

(* -------------------------------- pop --------------------------------- *)
(* Variants of the loop: closed looked at before the heap; closed never   *)
(* looked at; an empty heap answered by returning instead of waiting.      *)
popLoopClosedFirst(q, isClosed) ==
    IF isClosed THEN "return"
    ELSE IF Len(q) = 0 THEN "wait" ELSE "take"

popLoopIgnoresClosed(q, isClosed) ==
    IF Len(q) = 0 THEN "wait" ELSE "take"

popLoopNoWait(q, isClosed) ==
    IF Len(q) = 0 THEN "return" ELSE "take"

(* What the loop at the head of pop decides with the lock held:            *)
(* return (nil, nil), wait on the condition, or go on to take the head.    *)
popLoop(q, isClosed) ==
    IF Len(q) = 0
    THEN IF isClosed THEN "return" ELSE "wait"
    ELSE "take"

(* Variant: the last item of the backing array is taken, not the root. *)
popItemLast(q) ==
    IF Len(q) = 0 THEN [obj |-> Item(0, 0), err |-> TRUE, queue |-> q]
    ELSE [obj |-> q[Len(q)], err |-> FALSE, queue |-> SubSeq(q, 1, Len(q) - 1)]

(* pInfo, err := aq.queue.Pop() *)
popItem(q) == HeapPop(q)

(* pInfo.Attempts++ *)
popAttempts(n) == n + 1

(* Variant: the cycle is not incremented. *)
popCycleKeeps(n) == n

(* Variant: the counter has one bit. *)
popCycleWraps(n) == (n + 1) % 2

(* aq.schedCycle++ *)
popCycle(n) == n + 1

(* The element pop pushes to inFlightEvents and records in inFlightPods. *)
popMarker(m, l, id, u) ==
    [inFlightPods |-> (u :> id) @@ m,
     inFlightEvents |-> Append(l, PodElem(id, u))]

(* Variant: the pod is recorded as in flight whatever the feature gate.   *)
popInFlightAlways(enabled, m, l, id, u) == popMarker(m, l, id, u)

(* if aq.isSchedulingQueueHintEnabled { ... }: the pod is recorded as in   *)
(* flight only with the feature gate on.                                   *)
popInFlight(enabled, m, l, id, u) ==
    IF enabled THEN popMarker(m, l, id, u)
    ELSE [inFlightPods |-> m, inFlightEvents |-> l]

(* Variant: one decrement for each of the two sets that holds the plugin.  *)
popMetricsTwice(g, us, ps) ==
    [pl \in DOMAIN g |->
        g[pl] - (IF pl \in us THEN 1 ELSE 0) - (IF pl \in ps THEN 1 ELSE 0)]

(* for plugin := range UnschedulablePlugins.Union(PendingPlugins):        *)
(*     metrics.UnschedulableReason(plugin, ...).Dec()                      *)
popMetrics(g, us, ps) ==
    [pl \in DOMAIN g |-> IF pl \in us \cup ps THEN g[pl] - 1 ELSE g[pl]]

(* pInfo.UnschedulablePlugins.Clear(), pInfo.PendingPlugins.Clear() *)
popClear(plugins) == {}

(* pop from its loop on, run by consumer c holding the lock. *)
popBody(c) ==
    LET decision == popLoop(queue, closed)
    IN CASE decision = "return" ->
              /\ pc' = [pc EXCEPT ![c] = "returned"]
              /\ ret' = [ret EXCEPT ![c] = NilRet]
              /\ UNCHANGED <<queue, inFlightPods, inFlightEvents, schedCycle, outstanding, attempts, pluginVars>>
         [] decision = "wait" ->
              /\ pc' = [pc EXCEPT ![c] = "waiting"]
              /\ UNCHANGED <<queue, inFlightPods, inFlightEvents, schedCycle, ret, outstanding, attempts, pluginVars>>
         [] OTHER ->
              LET r == popItem(queue)
                  u == r.obj.uid
              IN IF r.err
                 THEN /\ pc' = [pc EXCEPT ![c] = "returned"]
                      /\ ret' = [ret EXCEPT ![c] = ErrRet]
                      /\ UNCHANGED <<queue, inFlightPods, inFlightEvents,
                                     schedCycle, outstanding, attempts, pluginVars>>
                 ELSE /\ queue' = r.queue
                      /\ schedCycle' = popCycle(schedCycle)
                      /\ LET m == popInFlight(isSchedulingQueueHintEnabled,
                                               inFlightPods, inFlightEvents,
                                               NewElem(inFlightPods, inFlightEvents), u)
                         IN /\ inFlightPods' = m.inFlightPods
                            /\ inFlightEvents' = m.inFlightEvents
                      /\ pc' = [pc EXCEPT ![c] = "returned"]
                      /\ ret' = [ret EXCEPT ![c] = u]
                      /\ outstanding' = [outstanding EXCEPT ![u] = @ + 1]
                      /\ attempts' = [attempts EXCEPT ![u] = popAttempts(@)]
                      /\ unschedulableReason' =
                             popMetrics(unschedulableReason,
                                        unschedulablePlugins[u], pendingPlugins[u])
                      /\ unschedulablePlugins' =
                             [unschedulablePlugins EXCEPT ![u] = popClear(@)]
                      /\ pendingPlugins' =
                             [pendingPlugins EXCEPT ![u] = popClear(@)]

(* Variant: the wait does not release the lock. *)
PopWaitsWithLock(c) ==
    /\ pc[c] = "idle"
    /\ lock = Unlocked
    /\ popBody(c)
    /\ lock' = IF popLoop(queue, closed) = "wait" THEN "pop" ELSE lock
    /\ UNCHANGED <<closed, isSchedulingQueueHintEnabled, envVars>>

(* A consumer calls pop: lock.Lock() and the first pass of the loop. *)
Pop(c) ==
    /\ pc[c] = "idle"
    /\ lock = Unlocked
    /\ popBody(c)
    /\ UNCHANGED <<closed, isSchedulingQueueHintEnabled, lock, envVars>>

(* Variant: "if" for "for": the woken consumer does not look at the heap   *)
(* again and goes on to aq.queue.Pop().                                    *)
PopResumeNoRecheck(c) ==
    /\ pc[c] = "woken"
    /\ lock = Unlocked
    /\ IF Len(queue) = 0
       THEN /\ pc' = [pc EXCEPT ![c] = "returned"]
            /\ ret' = [ret EXCEPT ![c] = ErrRet]
            /\ UNCHANGED <<queue, inFlightPods, inFlightEvents, schedCycle,
                           outstanding, attempts, pluginVars>>
       ELSE popBody(c)
    /\ UNCHANGED <<closed, isSchedulingQueueHintEnabled, lock, envVars>>

(* cond.Wait returns: the woken consumer has the lock again and loops. *)
PopResume(c) ==
    /\ pc[c] = "woken"
    /\ lock = Unlocked
    /\ popBody(c)
    /\ UNCHANGED <<closed, isSchedulingQueueHintEnabled, lock, envVars>>

(* The caller has the values pop returned and goes on. *)
PopReturn(c) ==
    /\ pc[c] = "returned"
    /\ pc' = [pc EXCEPT ![c] = "idle"]
    /\ ret' = [ret EXCEPT ![c] = NoRet]
    /\ UNCHANGED <<queue, inFlightPods, inFlightEvents, schedCycle, closed,
                   isSchedulingQueueHintEnabled, lock, outstanding, attempts, pluginVars, envVars>>

(* schedulingCycle(): the counter, read under the read lock. *)
schedulingCycle == schedCycle

(* --------------------------- broadcast, close ------------------------- *)
(* Variant: cond.Signal, one waiting goroutine is woken. *)
signalWake(p) ==
    LET w == {c \in Consumers : p[c] = "waiting"}
    IN IF w = {} THEN p
       ELSE [p EXCEPT ![CHOOSE c \in w : \A d \in w : c <= d] = "woken"]

(* cond.Broadcast: every goroutine waiting on the condition is woken. *)
broadcastWake(p) ==
    [c \in Consumers |-> IF p[c] = "waiting" THEN "woken" ELSE p[c]]

Broadcast ==
    /\ pc' = broadcastWake(pc)
    /\ UNCHANGED <<queue, inFlightPods, inFlightEvents, schedCycle,
                   closed, isSchedulingQueueHintEnabled, lock, ret,
                   outstanding, attempts, pluginVars, envVars>>

(* Variants: close flips the flag; close also wakes the waiting pops. *)
closeToggles(isClosed) == ~isClosed

CloseAndBroadcast ==
    /\ lock = Unlocked
    /\ closed' = TRUE
    /\ pc' = broadcastWake(pc)
    /\ UNCHANGED <<queue, inFlightPods, inFlightEvents, schedCycle,
                   isSchedulingQueueHintEnabled, lock, ret, outstanding,
                   attempts, pluginVars, envVars>>

(* aq.closed = true *)
close(isClosed) == TRUE

Close ==
    /\ lock = Unlocked
    /\ closed' = close(closed)
    /\ UNCHANGED <<queue, inFlightPods, inFlightEvents, schedCycle,
                   isSchedulingQueueHintEnabled, lock, pc, ret, outstanding, attempts, pluginVars, envVars>>

(* ------------------------- in-flight events --------------------------- *)
(* Variant: the walk starts at the front of the list. *)
clusterEventsFromFront(m, l, u) ==
    IF u \notin DOMAIN m THEN [events |-> <<>>, err |-> TRUE]
    ELSE [events |-> SelectSeq(l, LAMBDA e : ~e.isPod), err |-> FALSE]

(* Variant: a pod that is no key of inFlightPods gets (nil, nil). *)
clusterEventsNoError(m, l, u) ==
    IF u \notin DOMAIN m THEN [events |-> <<>>, err |-> FALSE]
    ELSE LET i == ElemIndex(l, m[u])
             rest == IF i = 0 THEN <<>> ELSE SubSeq(l, i + 1, Len(l))
         IN [events |-> SelectSeq(rest, LAMBDA e : ~e.isPod), err |-> FALSE]

(* The events after the element of pod u, as clusterEventsForPod walks     *)
(* them; err when u is no key of inFlightPods.                             *)
clusterEventsForPod(m, l, u) ==
    IF u \notin DOMAIN m THEN [events |-> <<>>, err |-> TRUE]
    ELSE LET i == ElemIndex(l, m[u])
             rest == IF i = 0 THEN <<>> ELSE SubSeq(l, i + 1, Len(l))
         IN [events |-> SelectSeq(rest, LAMBDA e : ~e.isPod), err |-> FALSE]

(* The values of the elements inFlightPods refers to. *)
listInFlightPods(m, l) ==
    {l[ElemIndex(l, m[k])].uid : k \in {x \in DOMAIN m : ElemIndex(l, m[x]) # 0}}

(* Variant: the event is pushed whether or not the pod is in flight. *)
addEventIfPodInFlightAlways(m, l, id, kind, u) ==
    [ok |-> u \in DOMAIN m,
     inFlightEvents |-> Append(l, EventElem(id, kind, u, u))]

addEventIfPodInFlight(m, l, id, kind, u) ==
    IF u \in DOMAIN m
    THEN [ok |-> TRUE, inFlightEvents |-> Append(l, EventElem(id, kind, u, u))]
    ELSE [ok |-> FALSE, inFlightEvents |-> l]

(* Variant: the event is pushed whether or not any pod is in flight. *)
addEventIfAnyInFlightAlways(m, l, id, kind) ==
    [ok |-> TRUE,
     inFlightEvents |-> Append(l, EventElem(id, kind, NodeObj, NodeObj))]

addEventIfAnyInFlight(m, l, id, kind) ==
    IF DOMAIN m # {}
    THEN [ok |-> TRUE,
          inFlightEvents |-> Append(l, EventElem(id, kind, NodeObj, NodeObj))]
    ELSE [ok |-> FALSE, inFlightEvents |-> l]

NumEvents(l) == Len(SelectSeq(l, LAMBDA e : ~e.isPod))

AddEventIfPodInFlight(u) ==
    LET r == addEventIfPodInFlight(inFlightPods, inFlightEvents,
                                   NewElem(inFlightPods, inFlightEvents),
                                   "PodUpdate", u)
    IN /\ lock = Unlocked
       /\ r.ok => NumEvents(inFlightEvents) < MaxEvents
       /\ inFlightEvents' = r.inFlightEvents
       /\ UNCHANGED <<queue, inFlightPods, schedCycle, closed,
                      isSchedulingQueueHintEnabled, lock, pc, ret, outstanding, attempts, pluginVars, envVars>>

AddEventIfAnyInFlight ==
    LET r == addEventIfAnyInFlight(inFlightPods, inFlightEvents,
                                   NewElem(inFlightPods, inFlightEvents),
                                   "NodeAdd")
    IN /\ lock = Unlocked
       /\ r.ok => NumEvents(inFlightEvents) < MaxEvents
       /\ inFlightEvents' = r.inFlightEvents
       /\ UNCHANGED <<queue, inFlightPods, schedCycle, closed,
                      isSchedulingQueueHintEnabled, lock, pc, ret, outstanding, attempts, pluginVars, envVars>>

(* -------------------------------- done -------------------------------- *)
(* Variant: a pod that is no key of inFlightPods is taken to be the oldest *)
(* in flight, and the front of the list is removed for it.                *)
doneListDropsFront(m, l, u) ==
    IF u \notin DOMAIN m
    THEN IF l = <<>> THEN l ELSE pruneFront(Tail(l))
    ELSE pruneFront(ListRemove(l, m[u]))

doneList(m, l, u) ==
    IF u \notin DOMAIN m THEN l
    ELSE pruneFront(ListRemove(l, m[u]))

doneMap(m, u) == [k \in DOMAIN m \ {u} |-> m[k]]

Done(u) ==
    /\ lock = Unlocked
    /\ inFlightEvents' = doneList(inFlightPods, inFlightEvents, u)
    /\ inFlightPods' = doneMap(inFlightPods, u)
    /\ outstanding' = [outstanding EXCEPT ![u] = IF @ > 0 THEN @ - 1 ELSE 0]
    /\ UNCHANGED <<queue, schedCycle, closed,
                   isSchedulingQueueHintEnabled, lock, pc, ret, attempts, pluginVars, envVars>>

(* -------------------------- list, len, has ---------------------------- *)
(* A read of the heap: the operation, the mode in which it holds the lock, *)
(* whether the lock is held exclusively by another goroutine meanwhile,    *)
(* and what it returns.                                                    *)
Read(op, mode, value) ==
    [op |-> op, mode |-> mode, writer |-> lock # Unlocked, value |-> value]

(* list(): RLock, the pods of aq.queue.List(), RUnlock. *)
List ==
    /\ lock = Unlocked
    /\ observed' = Read("list", "shared", Len(queue))
    /\ UNCHANGED <<queue, inFlightPods, inFlightEvents, schedCycle, closed,
                   isSchedulingQueueHintEnabled, lock, pc, ret, outstanding,
                   attempts, pluginVars, newNode, oldNode, gotEvents>>

(* has(pInfo): RLock, aq.queue.Has(pInfo), RUnlock. *)
Has(u) ==
    /\ lock = Unlocked
    /\ observed' = Read("has", "shared", IF HeapHas(queue, u) THEN 1 ELSE 0)
    /\ UNCHANGED <<queue, inFlightPods, inFlightEvents, schedCycle, closed,
                   isSchedulingQueueHintEnabled, lock, pc, ret, outstanding,
                   attempts, pluginVars, newNode, oldNode, gotEvents>>

(* len(): aq.queue.Len(), with no lock taken.  While another goroutine     *)
(* holds the lock and writes the heap the read races with the write, and   *)
(* any length may be what it gives.                                        *)
len(q, racing) == IF racing THEN 0..NumPods ELSE {Len(q)}

LenRead ==
    /\ \E n \in len(queue, lock # Unlocked) :
           observed' = Read("len", "none", n)
    /\ UNCHANGED <<queue, inFlightPods, inFlightEvents, schedCycle, closed,
                   isSchedulingQueueHintEnabled, lock, pc, ret, outstanding,
                   attempts, pluginVars, newNode, oldNode, gotEvents>>

(* ------------------------------- Next --------------------------------- *)
Next ==
    \/ UnderLockBegin
    \/ \E u \in UIDs, p \in Priorities : AddOrUpdate(u, p)
    \/ UnderLockEnd
    \/ \E u \in UIDs, p \in Priorities : Update(u, p)
    \/ \E u \in UIDs : Delete(u)
    \/ \E c \in Consumers : Pop(c)
    \/ \E c \in Consumers : PopResume(c)
    \/ \E c \in Consumers : PopReturn(c)
    \/ Broadcast
    \/ Close
    \/ \E u \in UIDs : AddEventIfPodInFlight(u)
    \/ AddEventIfAnyInFlight
    \/ \E u \in UIDs : Done(u)

Spec == Init /\ [][Next]_vars

(* The queue built with the scheduling-queue-hint feature gate off. *)
InitNoHints == Init /\ ~isSchedulingQueueHintEnabled

SpecNoHints == InitNoHints /\ [][Next]_vars

(* Scheduling: a goroutine that wants the lock gets it in the end (the     *)
(* mutex hands the lock to starving waiters), the consumers call pop again *)
(* after each return, and the function given to underLock returns.         *)
Fairness ==
    /\ \A c \in Consumers : SF_vars(Pop(c))
    /\ \A c \in Consumers : SF_vars(PopResume(c))
    /\ \A c \in Consumers : WF_vars(PopReturn(c))
    /\ WF_vars(UnderLockEnd)

FairSpec == InitNoHints /\ [][Next]_vars /\ Fairness

(* The queue with its readers: list, len and has beside the operations   *)
(* of Next.                                                                *)
ReadNext ==
    \/ Next
    \/ List
    \/ \E u \in UIDs : Has(u)
    \/ LenRead

ReadSpec == InitNoHints /\ [][ReadNext]_vars

(* The scheduler, holding a pInfo that pop gave it, records the plugins     *)
(* that rejected the pod, once, before the pod is queued again: a plugin   *)
(* in one set, the same plugin in both, or different plugins in the two.   *)
PluginRecords ==
    {<<{"PluginA"}, {}>>, <<{"PluginA"}, {"PluginA"}>>,
     <<{"PluginA"}, {"PluginB"}>>, <<{}, {"PluginB"}>>}

SetPlugins(u, us, ps) ==
    /\ outstanding[u] > 0
    /\ ~HeapHas(queue, u)
    /\ unschedulablePlugins[u] = {} /\ pendingPlugins[u] = {}
    /\ unschedulablePlugins' = [unschedulablePlugins EXCEPT ![u] = us]
    /\ pendingPlugins' = [pendingPlugins EXCEPT ![u] = ps]
    /\ UNCHANGED <<queue, inFlightPods, inFlightEvents, schedCycle, closed,
                   isSchedulingQueueHintEnabled, lock, pc, ret, outstanding,
                   attempts, unschedulableReason, envVars>>

(* The queue with a scheduler that records rejecting plugins. *)
PluginNext ==
    \/ Next
    \/ \E u \in UIDs : \E r \in PluginRecords : SetPlugins(u, r[1], r[2])

PluginSpec == InitNoHints /\ [][PluginNext]_vars

(* ------------------- underRLock, and re-entry ------------------------- *)
(* The lock held shared by n goroutines through underRLock. *)
RLocked == <<"rlocked1", "rlocked2", "rlocked3">>

RLockedBy(n) == IF n = 0 THEN Unlocked ELSE RLocked[n]

(* The lock held by a goroutine inside underLock that is itself waiting    *)
(* for the lock, in a method it called from fn.                            *)
Reentered == "reentered"

(* Methods of activeQueue that take the lock, as fn may call them. *)
ReentrantCalls == {"update", "delete", "has", "done"}

(* underRLock: lock.RLock(). *)
UnderRLockBegin ==
    /\ \E n \in 0..(MaxReaders - 1) :
           lock = RLockedBy(n) /\ lock' = RLockedBy(n + 1)
    /\ UNCHANGED <<queue, inFlightPods, inFlightEvents, schedCycle, closed,
                   isSchedulingQueueHintEnabled, pc, ret, outstanding,
                   attempts, pluginVars, envVars>>

(* fn calls Has(pInfo) on the read-only handle it was given. *)
UnderRLockHas(u) ==
    /\ \E n \in 1..MaxReaders : lock = RLockedBy(n)
    /\ observed' = [op |-> "Has", mode |-> "shared", writer |-> FALSE,
                    value |-> IF HeapHas(queue, u) THEN 1 ELSE 0]
    /\ UNCHANGED <<queue, inFlightPods, inFlightEvents, schedCycle, closed,
                   isSchedulingQueueHintEnabled, lock, pc, ret, outstanding,
                   attempts, pluginVars, newNode, oldNode, gotEvents>>

(* The deferred lock.RUnlock(). *)
UnderRLockEnd ==
    /\ \E n \in 1..MaxReaders :
           lock = RLockedBy(n) /\ lock' = RLockedBy(n - 1)
    /\ UNCHANGED <<queue, inFlightPods, inFlightEvents, schedCycle, closed,
                   isSchedulingQueueHintEnabled, pc, ret, outstanding,
                   attempts, pluginVars, envVars>>

(* Variant: the mutex is reentrant, the call gets the lock and returns. *)
reenterAcquires(l) == l

(* lock.Lock() or lock.RLock() by the goroutine that holds the lock        *)
(* exclusively: sync.RWMutex is not reentrant, the call waits for a lock   *)
(* that its own caller is to release.                                      *)
reenter(l) == Reentered

(* The fn given to underLock calls a lock-taking method of the queue. *)
UnderLockCalls(op) ==
    /\ lock = Producer
    /\ lock' = reenter(lock)
    /\ observed' = [op |-> op, mode |-> "reentry", writer |-> TRUE,
                    value |-> 0]
    /\ UNCHANGED <<queue, inFlightPods, inFlightEvents, schedCycle, closed,
                   isSchedulingQueueHintEnabled, pc, ret, outstanding,
                   attempts, pluginVars, newNode, oldNode, gotEvents>>

(* The queue with readers under underRLock and with functions given to     *)
(* underLock that call back into the queue.                                *)
LockNext ==
    \/ Next
    \/ UnderRLockBegin
    \/ \E u \in UIDs : UnderRLockHas(u)
    \/ UnderRLockEnd
    \/ \E op \in ReentrantCalls : UnderLockCalls(op)

LockSpec == InitNoHints /\ [][LockNext]_vars

(* The node change helpers: two nodes, drawn from Nodes, are handed to     *)
(* NodeSchedulingPropertiesChange once.                                    *)
NodeInit ==
    /\ QueueInit
    /\ isSchedulingQueueHintEnabled
    /\ newNode \in Nodes
    /\ oldNode \in Nodes
    /\ gotEvents = NotCalled

NodeUpdate ==
    /\ gotEvents = NotCalled
    /\ \E e \in extractNodeSpecUnschedulableChange(newNode, oldNode) :
           gotEvents' = NodeSchedulingPropertiesChange(newNode, oldNode, e)
    /\ UNCHANGED <<queue, inFlightPods, inFlightEvents, schedCycle, closed,
                   isSchedulingQueueHintEnabled, lock, pc, ret, outstanding,
                   attempts, pluginVars, observed, newNode, oldNode>>

NodeNext == NodeUpdate

NodeSpec == NodeInit /\ [][NodeNext]_vars

(* ===================== the steps the properties name ================== *)
(* Consumer c ran the loop of pop in this step. *)
PopStep(c) == pc[c] \in {"idle", "woken"} /\ pc'[c] # pc[c]

(* pop returned to consumer c in this step. *)
PopReturned(c) == PopStep(c) /\ pc'[c] = "returned"

(* pop returned the pInfo of pod u to consumer c in this step. *)
PoppedBy(c, u) == PopReturned(c) /\ ret'[c] = u

(* A cluster event was appended to inFlightEvents in this step. *)
EventAppended ==
    /\ Len(inFlightEvents') = Len(inFlightEvents) + 1
    /\ SubSeq(inFlightEvents', 1, Len(inFlightEvents)) = inFlightEvents
    /\ ~inFlightEvents'[Len(inFlightEvents')].isPod

EventsOf(u) == clusterEventsForPod(inFlightPods, inFlightEvents, u)

EventsOfNext(u) == clusterEventsForPod(inFlightPods', inFlightEvents', u)

SeqSet(q) == {q[i] : i \in 1..Len(q)}

RECURSIVE SumOver(_, _)
SumOver(f, S) ==
    IF S = {} THEN 0
    ELSE LET x == CHOOSE y \in S : TRUE IN f[x] + SumOver(f, S \ {x})

(* The positions of the pod elements of u in the list. *)
Markers(u) ==
    {i \in 1..Len(inFlightEvents) :
        inFlightEvents[i].isPod /\ inFlightEvents[i].uid = u}

(* The positions of the pod elements of u in a list l. *)
MarkersOf(l, u) == {i \in 1..Len(l) : l[i].isPod /\ l[i].uid = u}

(* The last element of the list after this step. *)
LastNext == inFlightEvents'[Len(inFlightEvents')]

(* ============================== claims ================================ *)

(* C1: with hints enabled, an event appended after pop returned P and      *)
(* before done(P) is in the result of every clusterEventsForPod(P) made    *)
(* before done(P): it is in the result right after the append, and no step *)
(* other than done(P) takes an event out of the result.                    *)
C1_EventSeenUntilDone ==
    [][\A u \in UIDs :
        (isSchedulingQueueHintEnabled /\ outstanding[u] > 0 /\ ~Done(u)) =>
            /\ EventAppended =>
                   inFlightEvents'[Len(inFlightEvents')]
                       \in SeqSet(EventsOfNext(u).events)
            /\ \A e \in SeqSet(EventsOf(u).events) :
                   e \in SeqSet(EventsOfNext(u).events)]_vars

(* C2: clusterEventsForPod(P) of an in-flight P is exactly the events      *)
(* appended since P was popped, in the order of their appends: it is empty *)
(* right after the pop of P, every append (by either API, for any pod)     *)
(* extends it at its end by the event appended, no other step changes it   *)
(* while P stays in flight, and it holds no pod element.                   *)
C2_EventsSincePop ==
    [][\A u \in UIDs :
        /\ (isSchedulingQueueHintEnabled /\ \E c \in Consumers : PoppedBy(c, u))
              => EventsOfNext(u) = [events |-> <<>>, err |-> FALSE]
        /\ (u \in DOMAIN inFlightPods /\ EventAppended)
              => EventsOfNext(u) =
                     [events |-> Append(EventsOf(u).events,
                                        inFlightEvents'[Len(inFlightEvents')]),
                      err |-> FALSE]
        /\ (/\ u \in DOMAIN inFlightPods
            /\ u \in DOMAIN inFlightPods'
            /\ ~EventAppended
            /\ ~\E c \in Consumers : PoppedBy(c, u))
              => EventsOfNext(u) = EventsOf(u)
        /\ \A e \in SeqSet(EventsOfNext(u).events) : ~e.isPod]_vars

(* Two pods in flight, an event between their pops and one after both. *)
C2_Witness ==
    \E u, v \in DOMAIN inFlightPods :
        /\ u # v
        /\ Len(EventsOf(u).events) = 2
        /\ Len(EventsOf(v).events) = 1
        /\ EventsOf(u).events[1].newObj # EventsOf(u).events[2].newObj

(* C3 as stated: once closed is true, no pop returns a pod. *)
C3_NoPodAfterClose ==
    [][closed => \A c \in Consumers : PopReturned(c) => ret'[c] = NilRet]_vars

(* C3 amended: once closed is true no pop waits; a pop that finds the heap *)
(* empty returns (nil, nil), and a pop that finds it non-empty returns a   *)
(* pod of the heap.                                                        *)
C3_ClosedPopNeverWaits ==
    [][closed => \A c \in Consumers : PopStep(c) =>
          /\ pc'[c] = "returned"
          /\ Len(queue) = 0 => ret'[c] = NilRet
          /\ Len(queue) # 0 => HeapHas(queue, ret'[c])]_vars

(* A pop returned (nil, nil) and another a pod, the queue being closed. *)
C3_Witness ==
    /\ closed
    /\ \E c, d \in Consumers :
          /\ pc[c] = "returned" /\ ret[c] = NilRet
          /\ pc[d] = "returned" /\ ret[d] \in UIDs

(* C4: once the queue is closed and the consumers blocked in pop have been *)
(* woken by a broadcast, each of them returns (nil, nil), unless a pod     *)
(* gets into the heap meanwhile.                                           *)
C4_CloseWakesWaiters ==
    \A c \in Consumers :
        (closed /\ pc[c] = "woken" /\ Len(queue) = 0)
            ~> ((pc[c] = "returned" /\ ret[c] = NilRet) \/ Len(queue) # 0)

(* Every consumer was blocked and is woken, the queue closed and empty. *)
C4_Witness ==
    /\ closed
    /\ Len(queue) = 0
    /\ \A c \in Consumers : pc[c] = "woken"

(* C5: a pop that finds the heap empty and the queue open waits; pop       *)
(* returns (nil, nil) only when closed, and a pod only if it was in the    *)
(* heap and is removed from it.                                            *)
C5_PopBlocksWhileEmpty ==
    [][\A c \in Consumers : PopStep(c) =>
          /\ (Len(queue) = 0 /\ ~closed) => pc'[c] = "waiting"
          /\ (pc'[c] = "returned" /\ ret'[c] = NilRet) => closed
          /\ pc'[c] = "returned" => ret'[c] \in UIDs \cup {NilRet}
          /\ (pc'[c] = "returned" /\ ret'[c] \in UIDs) =>
                 HeapHas(queue, ret'[c]) /\ ~HeapHas(queue', ret'[c])]_vars

(* A woken consumer found the heap empty again and waits, another got the pod. *)
C5_Witness ==
    /\ ~closed
    /\ Len(queue) = 0
    /\ \E c, d \in Consumers :
          /\ pc[c] = "waiting"
          /\ pc[d] = "returned" /\ ret[d] \in UIDs
    /\ schedCycle = 1

(* C6: no lost wake-up.  A step that wakes a waiter wakes them all; a      *)
(* woken consumer that finds a pod returns one, unless the heap is emptied *)
(* before it runs; and a pod in the heap while some consumer is not        *)
(* blocked leaves the heap (is popped, or deleted).                        *)
C6_NoLostWakeup ==
    /\ [][(\E c \in Consumers : pc[c] = "waiting" /\ pc'[c] = "woken")
             => \A c \in Consumers : pc'[c] # "waiting"]_vars
    /\ \A c \in Consumers :
          (pc[c] = "woken" /\ Len(queue) # 0)
              ~> ((pc[c] = "returned" /\ ret[c] \in UIDs) \/ Len(queue) = 0)
    /\ \A u \in UIDs :
          (HeapHas(queue, u) /\ \E c \in Consumers : pc[c] = "woken")
              ~> ((\E c \in Consumers : pc[c] = "returned" /\ ret[c] = u)
                     \/ ~HeapHas(queue, u))

(* Both consumers were blocked, a pod was added and the broadcast made. *)
C6_Witness ==
    /\ Len(queue) = 1
    /\ lock = Unlocked
    /\ \A c \in Consumers : pc[c] = "woken"

(* C7: a successful pop returns an item that no item of the heap precedes  *)
(* under the comparator, and the heap afterwards holds the other items.    *)
C7_PopReturnsMinimum ==
    [][\A c \in Consumers : \A u \in UIDs : PoppedBy(c, u) =>
          /\ HeapHas(queue, u)
          /\ \A j \in 1..Len(queue) :
                 ~lessFunc(queue[j], queue[IndexOf(queue, u)])
          /\ SeqSet(queue') = SeqSet(queue) \ {queue[IndexOf(queue, u)]}
          /\ Len(queue') = Len(queue) - 1]_vars

(* A pod of the highest priority was popped, a lower one stays behind. *)
C7_Witness ==
    \E c \in Consumers :
        /\ pc[c] = "returned"
        /\ ret[c] \in UIDs
        /\ Len(queue) >= 1
        /\ schedCycle = 1
        /\ \A j \in 1..Len(queue) : queue[j].priority < MaxPriority

(* C8: schedCycle counts the successful pops: it starts at 0, a pop that   *)
(* returns a pod adds one, and no other step changes it.                   *)
C8_CycleCountsPops ==
    /\ schedCycle = 0
    /\ [][IF \E c \in Consumers : PopReturned(c) /\ ret'[c] \in UIDs
          THEN schedCycle' = schedCycle + 1
          ELSE schedCycle' = schedCycle]_vars

(* Two pods were popped, and then a pop returned (nil, nil). *)
C8_Witness ==
    /\ schedCycle = 2
    /\ \E c \in Consumers : pc[c] = "returned" /\ ret[c] = NilRet

(* C9: inFlightPods has a key u iff the list has a pod element of u, it    *)
(* has exactly one, and the map refers to that element.                    *)
C9_MapMatchesTimeline ==
    \A u \in UIDs :
        /\ u \in DOMAIN inFlightPods <=> Markers(u) # {}
        /\ u \in DOMAIN inFlightPods =>
              /\ Cardinality(Markers(u)) = 1
              /\ \A i \in Markers(u) : inFlightEvents[i].id = inFlightPods[u]

(* C10: with hints enabled, inFlightPods holds as many pods as were popped *)
(* and not yet done, and they are the pods listInFlightPods returns.       *)
C10_InFlightCount ==
    isSchedulingQueueHintEnabled =>
        /\ Cardinality(DOMAIN inFlightPods) = SumOver(outstanding, UIDs)
        /\ DOMAIN inFlightPods = {u \in UIDs : outstanding[u] > 0}
        /\ listInFlightPods(inFlightPods, inFlightEvents)
               = {u \in UIDs : outstanding[u] > 0}

(* C11: a pod is not popped again while a pop of it has not been followed *)
(* by done: at most one pop of each UID is outstanding, also when the pod  *)
(* is put into the heap again through AddOrUpdate while it is in flight.   *)
C11_PoppedOncePerFlight ==
    \A u \in UIDs : outstanding[u] <= 1

(* C12: after done(u) the list has no pod element of u, u is no key of     *)
(* inFlightPods, and the list is empty or starts with a pod element.       *)
C12_DoneClearsPod ==
    [][\A u \in UIDs : Done(u) =>
          /\ MarkersOf(inFlightEvents', u) = {}
          /\ u \notin DOMAIN inFlightPods'
          /\ inFlightEvents' = <<>> \/ inFlightEvents'[1].isPod]_vars

(* C13: clusterEventsForPod of a pod that is no key of inFlightPods (never *)
(* popped, or passed to done) returns an error and no events; so it does   *)
(* right after done(u), whatever was recorded while u was in flight.       *)
C13_NotInFlightFails ==
    /\ [](\A u \in UIDs :
            /\ u \notin DOMAIN inFlightPods =>
                   EventsOf(u) = [events |-> <<>>, err |-> TRUE]
            /\ outstanding[u] = 0 => EventsOf(u).err)
    /\ [][\A u \in UIDs : Done(u) =>
            EventsOfNext(u) = [events |-> <<>>, err |-> TRUE]]_vars

(* An event recorded for u is still in the list, u has been done. *)
C13_Witness ==
    \E u \in UIDs :
        /\ u \notin DOMAIN inFlightPods
        /\ outstanding[u] = 0
        /\ \E i \in 1..Len(inFlightEvents) :
              ~inFlightEvents[i].isPod /\ inFlightEvents[i].newObj = u
        /\ EventsOf(u).err

(* C14: done(u) of a u that is no key of inFlightPods changes neither the  *)
(* list (nothing is pruned), the map, the heap, schedCycle nor closed; and *)
(* done(u) after done(u) leaves what the first left.                       *)
C14_DoneIdempotent ==
    /\ [][\A u \in UIDs : (Done(u) /\ u \notin DOMAIN inFlightPods) =>
            UNCHANGED <<inFlightEvents, inFlightPods, queue, schedCycle,
                        closed>>]_vars
    /\ [](\A u \in UIDs :
            LET l1 == doneList(inFlightPods, inFlightEvents, u)
                m1 == doneMap(inFlightPods, u)
            IN doneList(m1, l1, u) = l1 /\ doneMap(m1, u) = m1)

(* done(u) was called twice after u was popped twice, another pod being in *)
(* flight: the second call found no key.                                   *)
C14_Witness ==
    \E u \in UIDs :
        /\ isSchedulingQueueHintEnabled
        /\ u \notin DOMAIN inFlightPods
        /\ outstanding[u] = 0
        /\ Markers(u) # {}
        /\ DOMAIN inFlightPods # {}

(* C15: addEventIfPodInFlight returns true iff the pod is a key of         *)
(* inFlightPods; then one record of the event, with the old and the new    *)
(* pod, is pushed at the back of the list, otherwise the list is as it     *)
(* was; the heap, inFlightPods and schedCycle are never changed.           *)
C15_PodEventIffInFlight ==
    /\ [](\A u \in UIDs :
            LET id == NewElem(inFlightPods, inFlightEvents)
                r == addEventIfPodInFlight(inFlightPods, inFlightEvents,
                                           id, "PodUpdate", u)
            IN /\ r.ok <=> u \in DOMAIN inFlightPods
               /\ r.ok => r.inFlightEvents =
                     Append(inFlightEvents, EventElem(id, "PodUpdate", u, u))
               /\ ~r.ok => r.inFlightEvents = inFlightEvents)
    /\ [][\A u \in UIDs : AddEventIfPodInFlight(u) =>
            /\ UNCHANGED <<queue, inFlightPods, schedCycle>>
            /\ u \in DOMAIN inFlightPods =>
                   /\ EventAppended
                   /\ LastNext.event = "PodUpdate"
                   /\ LastNext.oldObj = u /\ LastNext.newObj = u
            /\ u \notin DOMAIN inFlightPods =>
                   inFlightEvents' = inFlightEvents]_vars
    /\ [][(EventAppended /\ LastNext.event = "PodUpdate") =>
            LastNext.newObj \in DOMAIN inFlightPods]_vars

(* The event of an in-flight pod is the last of the list, and another pod  *)
(* is not in flight.                                                       *)
C15_Witness ==
    /\ inFlightEvents # <<>>
    /\ LET e == inFlightEvents[Len(inFlightEvents)]
       IN /\ ~e.isPod
          /\ e.event = "PodUpdate"
          /\ e.newObj \in DOMAIN inFlightPods
    /\ \E v \in UIDs : v \notin DOMAIN inFlightPods

(* C16: addEventIfAnyInFlight returns true and pushes one record at the    *)
(* back of the list iff inFlightPods is not empty; with no pod in flight   *)
(* it returns false and the list is as it was, so that a pod popped later  *)
(* does not get the event.                                                 *)
C16_AnyEventIffInFlight ==
    /\ [](LET id == NewElem(inFlightPods, inFlightEvents)
              r == addEventIfAnyInFlight(inFlightPods, inFlightEvents,
                                         id, "NodeAdd")
          IN /\ r.ok <=> DOMAIN inFlightPods # {}
             /\ r.ok => r.inFlightEvents =
                   Append(inFlightEvents,
                          EventElem(id, "NodeAdd", NodeObj, NodeObj))
             /\ ~r.ok => r.inFlightEvents = inFlightEvents)
    /\ [][AddEventIfAnyInFlight =>
            /\ UNCHANGED <<queue, inFlightPods, schedCycle>>
            /\ DOMAIN inFlightPods # {} =>
                   EventAppended /\ LastNext.event = "NodeAdd"
            /\ DOMAIN inFlightPods = {} =>
                   inFlightEvents' = inFlightEvents]_vars
    /\ [][(EventAppended /\ LastNext.event = "NodeAdd") =>
            DOMAIN inFlightPods # {}]_vars
    /\ [][\A u \in UIDs :
            (isSchedulingQueueHintEnabled /\ \E c \in Consumers : PoppedBy(c, u))
                => EventsOfNext(u).events = <<>>]_vars

(* A node event was recorded while a pod was in flight, and a pod popped   *)
(* after it does not have it among its events.                             *)
C16_Witness ==
    \E u, v \in DOMAIN inFlightPods :
        /\ \E e \in SeqSet(EventsOf(u).events) : e.event = "NodeAdd"
        /\ EventsOf(v).events = <<>>

(* C17: with the feature gate off, inFlightPods and the list stay empty,   *)
(* clusterEventsForPod fails for every pod, and the two event-recording    *)
(* calls return false; pop still returns a pod that no pod of the heap     *)
(* precedes, and adds one to its Attempts and one to schedCycle.           *)
C17_NoHintsNoTracking ==
    /\ [](~isSchedulingQueueHintEnabled =>
            /\ DOMAIN inFlightPods = {}
            /\ inFlightEvents = <<>>
            /\ \A u \in UIDs :
                  /\ EventsOf(u) = [events |-> <<>>, err |-> TRUE]
                  /\ ~addEventIfPodInFlight(inFlightPods, inFlightEvents,
                          NewElem(inFlightPods, inFlightEvents),
                          "PodUpdate", u).ok
            /\ ~addEventIfAnyInFlight(inFlightPods, inFlightEvents,
                    NewElem(inFlightPods, inFlightEvents), "NodeAdd").ok)
    /\ [][~isSchedulingQueueHintEnabled =>
            \A c \in Consumers : \A u \in UIDs : PoppedBy(c, u) =>
                /\ HeapHas(queue, u)
                /\ \A j \in 1..Len(queue) :
                       ~lessFunc(queue[j], queue[IndexOf(queue, u)])
                /\ attempts'[u] = attempts[u] + 1
                /\ \A v \in UIDs \ {u} : attempts'[v] = attempts[v]
                /\ schedCycle' = schedCycle + 1]_vars

(* With the gate off a pod was popped twice, and another pod is in the     *)
(* heap.                                                                   *)
C17_Witness ==
    /\ ~isSchedulingQueueHintEnabled
    /\ \E c \in Consumers :
          /\ pc[c] = "returned"
          /\ ret[c] \in UIDs
          /\ attempts[ret[c]] = 2
          /\ outstanding[ret[c]] = 1
    /\ schedCycle = 2
    /\ Len(queue) = 1

(* C18: update of a pod that is not in the heap returns nil and leaves the *)
(* heap, the list, inFlightPods and schedCycle as they are, also when the  *)
(* pod is in flight; the heap gets a new entry only through AddOrUpdate    *)
(* under underLock.                                                        *)
C18_UpdateNeverInserts ==
    /\ [](\A u \in UIDs : \A p \in Priorities :
            ~HeapHas(queue, u) =>
                /\ update(queue, u, p) = queue
                /\ updateReturn(queue, u, p) = NoItem)
    /\ [][\A u \in UIDs : \A p \in Priorities : Update(u, p) =>
            /\ UNCHANGED <<inFlightEvents, inFlightPods, schedCycle>>
            /\ ~HeapHas(queue, u) => queue' = queue]_vars
    /\ [][Len(queue') > Len(queue) => lock = Producer]_vars

(* A pod is in flight and not in the heap, which holds another pod. *)
C18_Witness ==
    \E u \in DOMAIN inFlightPods :
        /\ ~HeapHas(queue, u)
        /\ Len(queue) = 1
        /\ lock = Unlocked
        /\ update(queue, u, MaxPriority) = queue

(* C19: delete of a pod that is not in the heap returns an error and       *)
(* changes nothing; delete of a pod of the heap removes that entry, and    *)
(* no other, without an error; inFlightPods, the list and schedCycle are   *)
(* never changed by delete.                                                *)
C19_DeleteAbsentFails ==
    /\ [](\A u \in UIDs :
            LET r == delete(queue, u)
            IN IF HeapHas(queue, u)
               THEN /\ ~r.err
                    /\ Len(r.queue) = Len(queue) - 1
                    /\ SeqSet(r.queue) =
                           SeqSet(queue) \ {queue[IndexOf(queue, u)]}
               ELSE r.err /\ r.queue = queue)
    /\ [][\A u \in UIDs : Delete(u) =>
            /\ UNCHANGED <<inFlightEvents, inFlightPods, schedCycle>>
            /\ ~HeapHas(queue, u) => queue' = queue
            /\ HeapHas(queue, u) => ~HeapHas(queue', u)]_vars
    /\ [][Len(queue') < Len(queue) =>
            /\ Len(queue') = Len(queue) - 1
            /\ SeqSet(queue') \subseteq SeqSet(queue)]_vars

(* One pod is in the heap and another, in flight, is not. *)
C19_Witness ==
    \E u, v \in UIDs :
        /\ HeapHas(queue, u)
        /\ ~HeapHas(queue, v)
        /\ v \in DOMAIN inFlightPods
        /\ inFlightEvents # <<>>
        /\ delete(queue, v).err
        /\ delete(queue, u).queue = <<>>

(* C20: the heap holds at most one entry for each UID; AddOrUpdate and     *)
(* update of a pod of the heap replace its entry and keep the length, and  *)
(* update returns the entry that is in the heap afterwards.                *)
C20_OneEntryPerUID ==
    /\ [](\A i, j \in 1..Len(queue) : queue[i].uid = queue[j].uid => i = j)
    /\ [](\A u \in UIDs : \A p \in Priorities :
            HeapHas(queue, u) =>
                LET old == queue[IndexOf(queue, u)]
                    q2 == HeapAddOrUpdate(queue, Item(u, p))
                IN /\ Len(q2) = Len(queue)
                   /\ SeqSet(q2) = (SeqSet(queue) \ {old}) \cup {Item(u, p)}
                   /\ update(queue, u, p) = q2
                   /\ updateReturn(queue, u, p) = Item(u, p)
                   /\ updateReturn(queue, u, p) \in SeqSet(update(queue, u, p)))
    /\ [][\A u \in UIDs : \A p \in Priorities :
            ((AddOrUpdate(u, p) \/ Update(u, p)) /\ HeapHas(queue, u)) =>
                /\ Len(queue') = Len(queue)
                /\ Item(u, p) \in SeqSet(queue')]_vars

(* Both pods are in the heap after one was popped and put back, with       *)
(* different priorities.                                                   *)
C20_Witness ==
    /\ Len(queue) = 2
    /\ schedCycle = 1
    /\ queue[1].priority # queue[2].priority
    /\ queue[1].uid # queue[2].uid

(* C25: done(u) of an in-flight u removes the pod element of u that       *)
(* inFlightPods refers to and the events that no remaining pod element     *)
(* precedes, and nothing else; the order of what stays is kept, and the    *)
(* events of every other in-flight pod are what they were.                 *)
C25_DoneRemovesOnlyGarbage ==
    [][\A u \in UIDs : (Done(u) /\ u \in DOMAIN inFlightPods) =>
          LET old == inFlightEvents
              marker == inFlightPods[u]
              kept == {inFlightEvents'[i].id : i \in 1..Len(inFlightEvents')}
          IN /\ inFlightEvents' = SelectSeq(old, LAMBDA e : e.id \in kept)
             /\ marker \notin kept
             /\ \A i \in 1..Len(old) :
                    (old[i].isPod /\ old[i].id # marker) => old[i].id \in kept
             /\ \A i \in 1..Len(old) :
                    ~old[i].isPod =>
                        (old[i].id \notin kept <=>
                            \A j \in 1..(i - 1) :
                                ~(old[j].isPod /\ old[j].id # marker))
             /\ \A v \in DOMAIN inFlightPods \ {u} :
                    EventsOfNext(v) = EventsOf(v)]_vars

(* A pod was popped and done; the pod at the front of the list still has   *)
(* its two events.                                                         *)
C25_Witness ==
    \E u \in UIDs : \E v \in DOMAIN inFlightPods :
        /\ u # v
        /\ attempts[u] = 1 /\ outstanding[u] = 0
        /\ inFlightEvents[1].isPod /\ inFlightEvents[1].uid = v
        /\ Len(inFlightEvents) = 3
        /\ Len(EventsOf(v).events) = 2

(* C26: in every reachable state the list has no event before its first    *)
(* pod element, it is empty when no pod is in flight, and each of its pod  *)
(* elements is the element of a pod that is in flight.                     *)
C26_NoGarbageInTimeline ==
    /\ inFlightEvents = <<>> \/ inFlightEvents[1].isPod
    /\ DOMAIN inFlightPods = {} => inFlightEvents = <<>>
    /\ \A i \in 1..Len(inFlightEvents) :
          inFlightEvents[i].isPod =>
              /\ inFlightEvents[i].uid \in DOMAIN inFlightPods
              /\ inFlightPods[inFlightEvents[i].uid] = inFlightEvents[i].id

(* C28: the scheduling cycle never decreases, and a pop that returns a pod *)
(* leaves it greater than it was, so that no two pops see the same cycle.  *)
C28_CycleMonotonic ==
    [][/\ schedulingCycle' >= schedulingCycle
       /\ \A c \in Consumers : \A u \in UIDs :
              PoppedBy(c, u) => schedulingCycle' > schedulingCycle]_vars

(* Both consumers hold a pod, popped in two cycles. *)
C28_Witness ==
    /\ \A c \in Consumers : pc[c] = "returned" /\ ret[c] \in UIDs
    /\ schedulingCycle = 2

C30_CloseSignalsNothing ==
    /\ [][closed' # closed =>
            /\ pc' = pc
            /\ UNCHANGED <<queue, inFlightPods, inFlightEvents, schedCycle,
                           lock, ret>>]_vars
    /\ [][(\E c \in Consumers : pc[c] = "waiting" /\ pc'[c] # "waiting") =>
            /\ pc' = broadcastWake(pc)
            /\ UNCHANGED <<queue, inFlightPods, inFlightEvents, schedCycle,
                           closed, lock, ret>>]_vars

(* The queue is closed, a pop made since returned (nil, nil), and a        *)
(* consumer that waited before still waits.                                *)
C30_Witness ==
    /\ closed
    /\ \E c, d \in Consumers :
          /\ pc[c] = "waiting"
          /\ pc[d] = "returned" /\ ret[d] = NilRet

(* C21: list, len and has read the heap holding the lock in shared mode,   *)
(* so that none of them reads it while the lock is held exclusively by an  *)
(* operation that is writing the heap.                                     *)
C21_ReadsUnderSharedLock ==
    observed.op \in {"list", "len", "has"} =>
        observed.mode = "shared" /\ ~observed.writer

(* C27: a pop that returns a pod adds one to its Attempts, takes one off   *)
(* the gauge of each plugin that is in UnschedulablePlugins or in          *)
(* PendingPlugins of the pod (one, also for a plugin in both), leaves the  *)
(* other gauges alone, and returns the pod with both sets empty.           *)
C27_PopBookkeeping ==
    [][\A c \in Consumers : \A u \in UIDs : PoppedBy(c, u) =>
          /\ attempts'[u] = attempts[u] + 1
          /\ \A pl \in Plugins :
                unschedulableReason'[pl] =
                    IF pl \in unschedulablePlugins[u] \/ pl \in pendingPlugins[u]
                    THEN unschedulableReason[pl] - 1
                    ELSE unschedulableReason[pl]
          /\ unschedulablePlugins'[u] = {}
          /\ pendingPlugins'[u] = {}
          /\ \A v \in UIDs \ {u} :
                /\ unschedulablePlugins'[v] = unschedulablePlugins[v]
                /\ pendingPlugins'[v] = pendingPlugins[v]
                /\ attempts'[v] = attempts[v]]_vars

(* A pod was popped a second time after plugins were recorded for it: one  *)
(* gauge was decremented, the other was not, and the sets are empty.       *)
C27_Witness ==
    \E c \in Consumers :
        /\ pc[c] = "returned"
        /\ ret[c] \in UIDs
        /\ attempts[ret[c]] = 2
        /\ unschedulablePlugins[ret[c]] = {}
        /\ pendingPlugins[ret[c]] = {}
        /\ unschedulableReason["PluginA"] = -1
        /\ unschedulableReason["PluginB"] = 0
        /\ schedCycle = 2

(* The order in which NodeSchedulingPropertiesChange is to report. *)
EventOrder ==
    <<"NodeSpecUnschedulableChange", "NodeAllocatableChange",
      "NodeLabelChange", "NodeTaintChange", "NodeAnnotationChange",
      "NodeConditionChange">>

Rank(kind) == CHOOSE i \in 1..Len(EventOrder) : EventOrder[i] = kind

(* C22: NodeSchedulingPropertiesChange returns the events of the           *)
(* extractors that fire and no other, each once, in the order              *)
(* SpecUnschedulable, Allocatable, Label, Taint, Annotation, Condition;    *)
(* nothing for nodes that agree; and NodeLabelChange, NodeTaintChange for  *)
(* nodes that differ in labels and taints alone.                           *)
C22_EventsInFixedOrder ==
    gotEvents # NotCalled =>
        /\ \A i \in 1..Len(gotEvents) : gotEvents[i] \in SeqSet(EventOrder)
        /\ \A i, j \in 1..Len(gotEvents) :
              i < j => Rank(gotEvents[i]) < Rank(gotEvents[j])
        /\ "NodeAllocatableChange" \in SeqSet(gotEvents)
              <=> extractNodeAllocatableChange(newNode, oldNode) # Nil
        /\ "NodeLabelChange" \in SeqSet(gotEvents)
              <=> extractNodeLabelsChange(newNode, oldNode) # Nil
        /\ "NodeTaintChange" \in SeqSet(gotEvents)
              <=> extractNodeTaintsChange(newNode, oldNode) # Nil
        /\ "NodeAnnotationChange" \in SeqSet(gotEvents)
              <=> extractNodeAnnotationsChange(newNode, oldNode) # Nil
        /\ "NodeConditionChange" \in SeqSet(gotEvents)
              <=> extractNodeConditionsChange(newNode, oldNode) # Nil
        /\ IF "NodeSpecUnschedulableChange" \in SeqSet(gotEvents)
           THEN "NodeSpecUnschedulableChange"
                    \in extractNodeSpecUnschedulableChange(newNode, oldNode)
           ELSE Nil \in extractNodeSpecUnschedulableChange(newNode, oldNode)
        /\ newNode = oldNode => gotEvents = <<>>
        /\ (/\ newNode.labels # oldNode.labels
            /\ newNode.taints # oldNode.taints
            /\ newNode.unschedulable = oldNode.unschedulable
            /\ newNode.allocatable = oldNode.allocatable
            /\ newNode.annotations = oldNode.annotations
            /\ newNode.conditions = oldNode.conditions)
              => gotEvents = <<"NodeLabelChange", "NodeTaintChange">>

(* A label was added and the value of a taint changed. *)
C22_Witness ==
    /\ gotEvents = <<"NodeLabelChange", "NodeTaintChange">>
    /\ oldNode.labels \subseteq newNode.labels
    /\ Len(newNode.taints) = 1 /\ Len(oldNode.taints) = 1

(* C23: extractNodeConditionsChange fires iff the (type, status) pairs of  *)
(* the two nodes' conditions differ: not for conditions that differ in     *)
(* lastHeartbeatTime or lastTransitionTime alone, and for a condition      *)
(* added, a condition removed or a status changed.                         *)
C23_ConditionsByTypeAndStatus ==
    LET n == newNode.conditions
        o == oldNode.conditions
        fires == extractNodeConditionsChange(newNode, oldNode) # Nil
        pairs(l) == {<<c.type, c.status>> : c \in SeqSet(l)}
    IN /\ fires <=> pairs(n) # pairs(o)
       /\ (/\ Len(n) = Len(o)
           /\ \A i \in 1..Len(n) :
                 n[i].type = o[i].type /\ n[i].status = o[i].status)
             => ~fires
       /\ (\E c \in SeqSet(n) : \A d \in SeqSet(o) : d.type # c.type) => fires
       /\ (\E d \in SeqSet(o) : \A c \in SeqSet(n) : d.type # c.type) => fires
       /\ (/\ Len(n) = 1 /\ Len(o) = 1
           /\ n[1].type = o[1].type /\ n[1].status # o[1].status) => fires

(* The heartbeat of a condition changed and nothing else: no event. *)
C23_Witness ==
    /\ gotEvents = <<>>
    /\ Len(newNode.conditions) = 1 /\ Len(oldNode.conditions) = 1
    /\ newNode.conditions[1].lastHeartbeatTime
           # oldNode.conditions[1].lastHeartbeatTime
    /\ extractNodeConditionsChange(newNode, oldNode) = Nil

(* C24: each of the helpers for allocatable, labels, taints, conditions    *)
(* and annotations fires for (a, b) iff it fires for (b, a), and does not  *)
(* fire for equal nodes.                                                   *)
C24_HelpersSymmetric ==
    /\ extractNodeAllocatableChange(newNode, oldNode) # Nil
          <=> extractNodeAllocatableChange(oldNode, newNode) # Nil
    /\ extractNodeLabelsChange(newNode, oldNode) # Nil
          <=> extractNodeLabelsChange(oldNode, newNode) # Nil
    /\ extractNodeTaintsChange(newNode, oldNode) # Nil
          <=> extractNodeTaintsChange(oldNode, newNode) # Nil
    /\ extractNodeConditionsChange(newNode, oldNode) # Nil
          <=> extractNodeConditionsChange(oldNode, newNode) # Nil
    /\ extractNodeAnnotationsChange(newNode, oldNode) # Nil
          <=> extractNodeAnnotationsChange(oldNode, newNode) # Nil
    /\ \A a \in {newNode, oldNode} :
          /\ extractNodeAllocatableChange(a, a) = Nil
          /\ extractNodeLabelsChange(a, a) = Nil
          /\ extractNodeTaintsChange(a, a) = Nil
          /\ extractNodeConditionsChange(a, a) = Nil
          /\ extractNodeAnnotationsChange(a, a) = Nil

(* The new node has fewer allocatable resources than the old, and the      *)
(* helper fires both ways.                                                 *)
C24_Witness ==
    /\ gotEvents = <<"NodeAllocatableChange">>
    /\ newNode.allocatable \subseteq oldNode.allocatable
    /\ extractNodeAllocatableChange(oldNode, newNode) # Nil

(* C31: of the consumers woken by a broadcast for a lone pod one takes it  *)
(* and the others, finding the heap empty and the queue open, wait again:  *)
(* a pop that returns a pod removes its heap entry, so that no entry is    *)
(* returned by two pops, at most one pop returns in a step, and no pop     *)
(* ever returns the heap's error for an empty heap.                        *)
C31_LoneItemPoppedOnce ==
    /\ [](\A c \in Consumers : ret[c] # ErrRet)
    /\ [][\A c \in Consumers :
            /\ (PopStep(c) /\ Len(queue) = 0 /\ ~closed)
                  => pc'[c] = "waiting" /\ ret' = ret /\ queue' = queue
            /\ \A u \in UIDs :
                  PoppedBy(c, u) =>
                      /\ Len(queue) > 0
                      /\ queue[1].uid = u
                      /\ ~HeapHas(queue', u)
                      /\ Len(queue') = Len(queue) - 1
                      /\ \A d \in Consumers \ {c} :
                            pc'[d] = pc[d] /\ ret'[d] = ret[d]
            /\ (pc[c] = "woken" /\ pc'[c] = "returned")
                  => ret'[c] \in UIDs \/ (ret'[c] = NilRet /\ closed)]_vars

(* Both consumers were woken for the one pod that was ever added; one has  *)
(* taken it and the other is about to find the heap empty.                 *)
C31_Witness ==
    \E c, d \in Consumers :
        /\ c # d
        /\ pc[c] = "returned" /\ ret[c] \in UIDs
        /\ pc[d] = "woken"
        /\ queue = <<>> /\ schedCycle = 1 /\ ~closed

(* C32: only pop suspends, and only on an empty heap of an open queue; a  *)
(* suspended pop does not hold the lock: with pops waiting, underLock with *)
(* AddOrUpdate, update, delete, done, close and the operations that record *)
(* events can take the lock and complete; and pop examines the heap only   *)
(* with the lock, which it takes when free and has released when it waits. *)
C32_WaitingPopsHoldNoLock ==
    /\ [][\A c \in Consumers :
            /\ PopStep(c) => lock = Unlocked /\ lock' = Unlocked
            /\ (pc[c] # "waiting" /\ pc'[c] = "waiting")
                  => PopStep(c) /\ Len(queue) = 0 /\ ~closed]_vars
    /\ []((\E c \in Consumers : pc[c] = "waiting") =>
            /\ lock \in {Unlocked, Producer}
            /\ lock = Unlocked =>
                  /\ ENABLED UnderLockBegin
                  /\ ENABLED Close
                  /\ \A u \in UIDs :
                        /\ ENABLED Delete(u)
                        /\ ENABLED Done(u)
                        /\ \A p \in Priorities : ENABLED Update(u, p)
                        /\ NumEvents(inFlightEvents) < MaxEvents
                              => ENABLED AddEventIfPodInFlight(u)
                  /\ NumEvents(inFlightEvents) < MaxEvents
                        => ENABLED AddEventIfAnyInFlight
            /\ lock = Producer =>
                  /\ ENABLED UnderLockEnd
                  /\ \A u \in UIDs, p \in Priorities :
                        (HeapHas(queue, u) \/ schedCycle + Len(queue) < MaxCycle)
                            => ENABLED AddOrUpdate(u, p))

(* Every consumer is suspended in pop, and the producer, inside underLock, *)
(* has added a pod.                                                        *)
C32_Witness ==
    /\ \A c \in Consumers : pc[c] = "waiting"
    /\ lock = Producer
    /\ Len(queue) > 0

(* Some method that takes the lock can take it now. *)
LockTakerEnabled ==
    \/ ENABLED UnderLockBegin
    \/ ENABLED UnderRLockBegin
    \/ ENABLED Close
    \/ ENABLED AddEventIfAnyInFlight
    \/ \E c \in Consumers : ENABLED Pop(c) \/ ENABLED PopResume(c)
    \/ \E u \in UIDs :
          \/ ENABLED Delete(u)
          \/ ENABLED Done(u)
          \/ ENABLED AddEventIfPodInFlight(u)
          \/ \E p \in Priorities : ENABLED Update(u, p)

(* The fields the lock protects are what they were. *)
ProtectedUnchanged ==
    UNCHANGED <<queue, inFlightPods, inFlightEvents, schedCycle, closed>>

(* C33: underLock runs fn with the lock held exclusively (nothing but      *)
(* fn's AddOrUpdate touches the queue and no method can take the lock),    *)
(* underRLock runs fn with the lock held shared (nothing is written,       *)
(* another reader may come in, no writer can); the lock is released when   *)
(* fn returns; and a lock-taking method called by fn inside underLock      *)
(* never gets the lock: from then on the lock is never released.           *)
C33_UnderLockExclusiveNoReentry ==
    /\ [](lock = Producer =>
            /\ ~LockTakerEnabled
            /\ ENABLED UnderLockEnd)
    /\ [](\A n \in 1..MaxReaders : lock = RLockedBy(n) =>
            /\ ~ENABLED UnderLockBegin
            /\ ~ENABLED Close
            /\ \A c \in Consumers : ~ENABLED Pop(c) /\ ~ENABLED PopResume(c)
            /\ \A u \in UIDs :
                  /\ ~ENABLED Delete(u)
                  /\ ~ENABLED Done(u)
                  /\ \A p \in Priorities : ~ENABLED Update(u, p)
            /\ n < MaxReaders => ENABLED UnderRLockBegin
            /\ ENABLED UnderRLockEnd)
    /\ [](observed.mode = "reentry" =>
            /\ lock = Reentered
            /\ ~LockTakerEnabled
            /\ ~ENABLED UnderLockEnd
            /\ \A u \in UIDs, p \in Priorities : ~ENABLED AddOrUpdate(u, p))
    /\ [][/\ (lock = Producer /\ lock' = Producer) =>
                /\ UNCHANGED <<inFlightPods, inFlightEvents, schedCycle,
                               closed>>
                /\ \A c \in Consumers : ~PopStep(c)
                /\ queue' # queue =>
                      \E u \in UIDs, p \in Priorities :
                          queue' = HeapAddOrUpdate(queue, Item(u, p))
          /\ (\E n \in 1..MaxReaders : lock = RLockedBy(n))
                => ProtectedUnchanged
          /\ (lock = Producer /\ lock' # Producer)
                => lock' \in {Unlocked, Reentered} /\ ProtectedUnchanged
          /\ (lock = RLockedBy(1) /\ lock' # lock)
                => lock' \in {Unlocked, RLockedBy(2)}
          /\ lock = Reentered => lock' = Reentered /\ ProtectedUnchanged]_vars

(* The fn given to underLock has added a pod and then called update: the   *)
(* lock is held for good, with a consumer waiting for the pod.             *)
C33_Witness ==
    /\ lock = Reentered
    /\ observed.op = "update"
    /\ Len(queue) > 0
    /\ \E c \in Consumers : pc[c] = "woken"


=============================================================================
